---------------------------- MODULE Spec2Model ----------------------------
(***************************************************************************)
(* A model of xray_export.py: the paged fetch of tests (fetch_all_tests),  *)
(* the formatting of Jira custom-field values (_format_jira_field_value),  *)
(* the flattening of tests into spreadsheet rows (flatten_rows) and the    *)
(* run that composes them (main and the __main__ exception handler).       *)
(*                                                                         *)
(* Python values are tagged records.  A Python str is a sequence of        *)
(* one-character strings, so that strip, split, join and lower are         *)
(* computed and not assumed.  A key that a dict does not hold is Absent;   *)
(* a key that holds null is None: dict.get(k) cannot tell them apart,      *)
(* dict.get(k, default) can.                                               *)
(***************************************************************************)
EXTENDS Integers, Sequences, FiniteSets, TLC

VARIABLES
    pc,         \* position of the run in main / fetch_all_tests
    limit,      \* args.limit, the page size requested
    srvN,       \* number of records the server holds (ids 1..srvN, in order)
    srvLimit,   \* the "limit" the server reports on every page (Absent: none)
    srvPage,    \* the number of records the server puts on a full page
    start,      \* fetch_all_tests: start
    total,      \* fetch_all_tests: total
    batch,      \* fetch_all_tests: batch
    out,        \* fetch_all_tests: out
    reqs,       \* history: the start offsets of the page requests issued
    parity,     \* history: the number of page requests issued, modulo 2
    paused,     \* history: time.sleep ran since the last page request
    unpaced,    \* history: a page request followed the previous one with no sleep
    uniform,    \* history: every answer so far was the honest one
    stalled,    \* history: the limit of some page was less than 1
    fetched,    \* how fetch_all_tests ended: "no", "returned", "raised"
    failed,     \* history: which page request raised: "no", "first", "later"
    rows,       \* main: rows
    flattened,  \* history: main called flatten_rows
    written,    \* history: an .xlsx file was written
    exitCode,   \* the process exit status (-1 while running)
    cause,      \* what ended the run
    fmtIn,      \* the argument of _format_jira_field_value
    fmtOut,     \* its result
    flatIn,     \* the argument of flatten_rows
    flatOut     \* its result

vars == <<pc, limit, srvN, srvLimit, srvPage, start, total, batch, out,
          reqs, parity, paused, unpaced, uniform, stalled, fetched, failed,
          rows, flattened, written, exitCode, cause,
          fmtIn, fmtOut, flatIn, flatOut>>

runVars == <<pc, limit, srvN, srvLimit, srvPage, start, total, batch, out,
             reqs, parity, paused, unpaced, uniform, stalled, fetched, failed,
             rows, flattened, written, exitCode, cause>>

-----------------------------------------------------------------------------
(* Bounds of the model. *)

\* longest list of choices / labels / steps / preconditions in an input
MaxItems == 2
\* longest sequence of tests given to flatten_rows
MaxTests == 2
\* most records the server holds
MaxTotal == 5
\* largest page limit requested or reported
MaxLimit == 2

-----------------------------------------------------------------------------
(* Python values. *)

Absent == [t |-> "absent"]
None == [t |-> "none"]
Str(s) == [t |-> "str", v |-> s]
Num(n) == [t |-> "int", v |-> n]
List(xs) == [t |-> "list", v |-> xs]
\* a dict over the keys 'value' and 'id' (a Jira option: {'value': .., 'id': ..})
Dict(value, id) == [t |-> "dict", value |-> value, id |-> id]

IsDict(x) == x.t = "dict"
IsList(x) == x.t = "list"
IsStr(x) == x.t = "str"

\* d.get(k): the value under k, None when the key is missing
Get(field) == IF field = Absent THEN None ELSE field
\* d.get(k, default)
GetDefault(field, default) == IF field = Absent THEN default ELSE field

\* bool(x)
Truthy(x) ==
    CASE x.t = "absent" -> FALSE
      [] x.t = "none" -> FALSE
      [] x.t = "str" -> x.v # <<>>
      [] x.t = "int" -> x.v # 0
      [] x.t = "list" -> x.v # <<>>
      [] x.t = "dict" -> x.value # Absent \/ x.id # Absent
      [] OTHER -> TRUE

\* x or y
Or(x, y) == IF Truthy(x) THEN x ELSE y

Digit == <<"0", "1", "2", "3", "4", "5", "6", "7", "8", "9">>

RECURSIVE IntStr(_)
IntStr(n) ==
    IF n < 0 THEN <<"-">> \o IntStr(-n)
    ELSE IF n < 10 THEN <<Digit[n + 1]>>
    ELSE IntStr(n \div 10) \o <<Digit[(n % 10) + 1]>>

\* repr of a dict that holds no 'value' key: {} or {'id': '..'}
DictRepr(d) ==
    IF d.id = Absent THEN <<"{", "}">>
    ELSE <<"{", "'", "i", "d", "'", ":", " ", "'">> \o d.id.v \o <<"'", "}">>

\* str(x), for the values a custom field holds (dicts here hold no 'value')
PyStr(x) ==
    CASE x.t = "none" -> <<"N", "o", "n", "e">>
      [] x.t = "str" -> x.v
      [] x.t = "int" -> IntStr(x.v)
      [] x.t = "dict" -> DictRepr(x)
      [] OTHER -> <<"?">>

\* sep.join(strs)
RECURSIVE Join(_, _)
Join(sep, strs) ==
    IF strs = <<>> THEN <<>>
    ELSE IF Len(strs) = 1 THEN strs[1]
    ELSE strs[1] \o sep \o Join(sep, Tail(strs))

\* filter(None, strs): the non-empty strings, in order
RECURSIVE FilterNonEmpty(_)
FilterNonEmpty(strs) ==
    IF strs = <<>> THEN <<>>
    ELSE IF strs[1] = <<>> THEN FilterNonEmpty(Tail(strs))
    ELSE <<strs[1]>> \o FilterNonEmpty(Tail(strs))

CommaSpace == <<",", " ">>

-----------------------------------------------------------------------------
(* _format_jira_field_value *)

\* the loop body of lines 119-123: the string one list item contributes
ItemStr(item) ==
    IF IsDict(item) /\ item.value # Absent THEN PyStr(item.value)
    ELSE PyStr(item)

_format_jira_field_value(value) ==
    IF IsDict(value) /\ value.value # Absent THEN PyStr(value.value)
    ELSE IF IsList(value)
        THEN Join(CommaSpace,
                  FilterNonEmpty([i \in 1..Len(value.v) |-> ItemStr(value.v[i])]))
    ELSE IF Truthy(value) THEN PyStr(value)
    ELSE <<>>

\* the scalars, options and lists of them a Jira field can hold
Scalars == {None, Str(<<>>), Str(<<"a">>), Str(<<"b", " ">>), Num(0), Num(12)}
Options ==
    {Dict(v, i) : v \in {Absent, Str(<<>>), Str(<<"x">>), Str(<<"y">>)},
                  i \in {Absent, Str(<<"1">>)}}
SeqsUpTo(S, n) == UNION {[1..k -> S] : k \in 0..n}
FieldValues ==
    Scalars \cup Options \cup {List(xs) : xs \in SeqsUpTo(Scalars \cup Options, MaxItems)}

Pending == [done |-> FALSE]

FormatArgs ==
    /\ fmtIn \in FieldValues
    /\ fmtOut = Pending

Format ==
    /\ fmtOut = Pending
    /\ fmtOut' = [done |-> TRUE, s |-> _format_jira_field_value(fmtIn)]
    /\ UNCHANGED fmtIn

-----------------------------------------------------------------------------
(* str methods used by flatten_rows *)

Space == " "
Tab == "\t"
IsSpace(c) == c \in {Space, Tab}

\* s.lstrip()
RECURSIVE LStrip(_)
LStrip(s) ==
    IF s = <<>> THEN <<>>
    ELSE IF IsSpace(s[1]) THEN LStrip(Tail(s))
    ELSE s

\* s.rstrip()
RECURSIVE RStrip(_)
RStrip(s) ==
    IF s = <<>> THEN <<>>
    ELSE IF IsSpace(s[Len(s)]) THEN RStrip(SubSeq(s, 1, Len(s) - 1))
    ELSE s

\* s.strip()
Strip(s) == RStrip(LStrip(s))

\* the first word of a string that starts with no whitespace
RECURSIVE FirstWord(_)
FirstWord(s) ==
    IF s = <<>> \/ IsSpace(s[1]) THEN <<>>
    ELSE <<s[1]>> \o FirstWord(Tail(s))

\* s.split(): the maximal runs of non-whitespace characters
RECURSIVE Split(_)
Split(s) ==
    LET r == LStrip(s)
        w == FirstWord(r)
    IN  IF r = <<>> THEN <<>>
        ELSE <<w>> \o Split(SubSeq(r, Len(w) + 1, Len(r)))

LowerOf(c) ==
    CASE c = "P" -> "p" [] c = "R" -> "r" [] c = "E" -> "e" [] c = "C" -> "c"
      [] c = "O" -> "o" [] c = "N" -> "n" [] c = "D" -> "d" [] c = "I" -> "i"
      [] c = "T" -> "t" [] c = "S" -> "s" [] c = "X" -> "x"
      [] OTHER -> c

\* s.lower()
Lower(s) == [i \in 1..Len(s) |-> LowerOf(s[i])]

precondition == <<"p", "r", "e", "c", "o", "n", "d", "i", "t", "i", "o", "n">>

-----------------------------------------------------------------------------
(* flatten_rows.  A test, its jira mapping, a step, a step custom field, the *)
(* preconditions mapping and a precondition are records of fields, each     *)
(* field a Python value or Absent; a result is [ok, ..], ok = FALSE when    *)
(* Python raises.                                                           *)

Test(jira, steps, preconditions) ==
    [jira |-> jira, steps |-> steps, preconditions |-> preconditions]
Jira(key, summary, labels, cf10138, cf10167) ==
    [t |-> "jira", key |-> key, summary |-> summary, labels |-> labels,
     customfield_10138 |-> cf10138, customfield_10167 |-> cf10167]
Step(action, result, customFields) ==
    [t |-> "step", action |-> action, result |-> result, customFields |-> customFields]
CustomField(name, value) == [t |-> "cf", name |-> name, value |-> value]
Preconditions(results) == [t |-> "pre", results |-> results]
Precondition(jira, definition) == [t |-> "p", jira |-> jira, definition |-> definition]
PreJira(key, summary) == [t |-> "prejira", key |-> key, summary |-> summary]

\* {}: a mapping that holds none of its keys
EmptyJira == Jira(Absent, Absent, Absent, Absent, Absent)
EmptyPreJira == PreJira(Absent, Absent)
EmptyPreconditions == Preconditions(Absent)
EmptyPrecondition == Precondition(Absent, Absent)
EmptyCustomField == CustomField(Absent, Absent)

\* x or {} / x or [], where x is a mapping, a list, None or Absent
OrElse(x, y) == IF x = Absent \/ x = None \/ x = List(<<>>) THEN y ELSE x

\* ", ".join(labels): raises TypeError on an item that is no str
JoinLabels(labels) ==
    IF \E i \in 1..Len(labels.v) : ~IsStr(labels.v[i])
    THEN [ok |-> FALSE]
    ELSE [ok |-> TRUE,
          s |-> Join(CommaSpace, [i \in 1..Len(labels.v) |-> labels.v[i].v])]

\* lines 147-154: the "key - summary" titles of the preconditions
RECURSIVE PreTitles(_)
PreTitles(ps) ==
    IF ps = <<>> THEN <<>>
    ELSE LET p == ps[1]
             pre_jira == OrElse(Get(p.jira), EmptyPreJira)
             pre_key == Get(pre_jira.key)
             pre_summary == Get(pre_jira.summary)
         IN  IF p = None \/ p = EmptyPrecondition THEN PreTitles(Tail(ps))
             ELSE IF Truthy(pre_key) /\ Truthy(pre_summary)
                 THEN <<PyStr(pre_key) \o <<" ", "-", " ">> \o PyStr(pre_summary)>>
                      \o PreTitles(Tail(ps))
             ELSE PreTitles(Tail(ps))

\* ' '.join(definition.split())
Normalize(s) == Join(<<Space>>, Split(s))

\* lines 147-160: the normalized definitions of the preconditions
RECURSIVE PreDefs(_)
PreDefs(ps) ==
    IF ps = <<>> THEN <<>>
    ELSE LET p == ps[1]
             definition == Get(p.definition)
         IN  IF p = None \/ p = EmptyPrecondition THEN PreDefs(Tail(ps))
             ELSE IF Truthy(definition)
                 THEN <<Normalize(definition.v)>> \o PreDefs(Tail(ps))
             ELSE PreDefs(Tail(ps))

\* lines 178-183: the value of the first custom field named "precondition"
RECURSIVE StepPrecondition(_)
StepPrecondition(cfs) ==
    IF cfs = <<>> THEN [ok |-> TRUE, s |-> <<>>]
    ELSE LET cf == cfs[1]
         IN  IF cf = None \/ cf = EmptyCustomField
                 THEN StepPrecondition(Tail(cfs))
             ELSE IF ~IsStr(GetDefault(cf.name, Str(<<>>)))
                 THEN [ok |-> FALSE]
             ELSE IF Lower(GetDefault(cf.name, Str(<<>>)).v) = precondition
                 THEN [ok |-> TRUE, s |-> Or(Get(cf.value), Str(<<>>)).v]
             ELSE StepPrecondition(Tail(cfs))

\* enumerate(steps, start=1): the index given to the i-th step
StepIndex0(i) == i - 1
StepIndex(i) == i

\* lines 162-169
BaseRow(jira_info, labels, pre_titles_list, pre_defs_list) ==
    [TestKey |-> GetDefault(jira_info.key, Str(<<>>)),
     Summary |-> GetDefault(jira_info.summary, Str(<<>>)),
     Labels |-> Str(labels),
     Components |-> Str(_format_jira_field_value(Get(jira_info.customfield_10138))),
     CustomField2 |-> Str(_format_jira_field_value(Get(jira_info.customfield_10167))),
     IssuePreconditions |-> Str(Join(<<";", " ">>, pre_titles_list)),
     IssuePreconditionsDefinition |-> Str(Join(<<" ", "|", " ">>, pre_defs_list))]

\* {**base_row, "Step #": .., "Step Precondition": .., "Action": .., "Expected Result": ..}
Row(base_row, step_no, step_precondition, action, expected) ==
    [TestKey |-> base_row.TestKey,
     Summary |-> base_row.Summary,
     Labels |-> base_row.Labels,
     Components |-> base_row.Components,
     CustomField2 |-> base_row.CustomField2,
     IssuePreconditions |-> base_row.IssuePreconditions,
     IssuePreconditionsDefinition |-> base_row.IssuePreconditionsDefinition,
     StepNo |-> step_no,
     StepPrecondition |-> step_precondition,
     Action |-> action,
     ExpectedResult |-> expected]

\* lines 176-183 and 187-189: what makes the turn of the loop for a step raise
\* (AttributeError: None has no get, no lower)
StepRaises(step) ==
    \/ step = None
    \/ ~StepPrecondition(OrElse(Get(step.customFields), List(<<>>)).v).ok

\* lines 184-190: the row of the i-th step
StepRow(base_row, step, i) ==
    Row(base_row, Num(StepIndex(i)),
        Str(Strip(StepPrecondition(OrElse(Get(step.customFields), List(<<>>)).v).s)),
        Str(Strip(Or(Get(step.action), Str(<<>>)).v)),
        Str(Strip(Or(Get(step.result), Str(<<>>)).v)))

\* lines 134-190: the body of the loop over tests
TestRows(test) ==
    LET jira_info == OrElse(Get(test.jira), EmptyJira)
        labels == OrElse(Get(jira_info.labels), List(<<>>))
        joined == JoinLabels(labels)
        precondition_results ==
            OrElse(Get(OrElse(Get(test.preconditions), EmptyPreconditions).results),
                   List(<<>>)).v
        base_row == BaseRow(jira_info, joined.s, PreTitles(precondition_results),
                            PreDefs(precondition_results))
        steps == OrElse(Get(test.steps), List(<<>>)).v
    IN  IF ~joined.ok THEN [ok |-> FALSE]
        ELSE IF steps = <<>>
            THEN [ok |-> TRUE,
                  rows |-> <<Row(base_row, Str(<<>>), Str(<<>>), Str(<<>>), Str(<<>>))>>]
        ELSE IF \E i \in 1..Len(steps) : StepRaises(steps[i]) THEN [ok |-> FALSE]
        ELSE [ok |-> TRUE,
              rows |-> [i \in 1..Len(steps) |-> StepRow(base_row, steps[i], i)]]

\* rows.append over the tests: the rows of each test, one test after the other
RECURSIVE Concat(_)
Concat(seqs) == IF seqs = <<>> THEN <<>> ELSE seqs[1] \o Concat(Tail(seqs))

flatten_rows(tests) ==
    IF \E k \in 1..Len(tests) : ~TestRows(tests[k]).ok THEN [ok |-> FALSE]
    ELSE [ok |-> TRUE, rows |-> Concat([k \in 1..Len(tests) |-> TestRows(tests[k]).rows])]

-----------------------------------------------------------------------------
(* The inputs of flatten_rows: tests whose optional parts are missing, null *)
(* or present, one part varied at a time around well-formed base tests.     *)

T1 == Str(<<"T", "1">>)
T2 == Str(<<"T", "2">>)
Text == Str(<<"a">>)
Padded == Str(<<Space, "a", Space>>)

BaseJira(key) == Jira(key, Str(<<"S">>), List(<<Str(<<"a">>), Str(<<"b">>)>>), Absent, Absent)
BaseStep == Step(Padded, Text, Absent)
BaseTests ==
    {Test(BaseJira(T1), Absent, Absent),
     Test(BaseJira(T2), List(<<BaseStep, BaseStep>>), Absent)}

OptText == {Absent, None, Text}

JiraOptions ==
    {Absent, None} \cup
    {Jira(k, sm, l, c, Absent) :
        k \in {Absent, None, T1}, sm \in {Absent, None, Str(<<"S">>)},
        l \in {Absent, None, List(<<>>), List(<<Str(<<"a">>), Str(<<"b">>)>>), List(<<None>>)},
        c \in {Absent, None, Num(0), Str(<<"c">>), Dict(Str(<<"x">>), Absent),
               List(<<Dict(Str(<<"x">>), Absent), Dict(Str(<<"y">>), Absent)>>)}}

SimpleSteps == {None} \cup {Step(a, r, Absent) : a \in {Absent, None, Padded}, r \in OptText}
StepsOptions == {Absent, None} \cup {List(xs) : xs \in SeqsUpTo(SimpleSteps, MaxItems)}

CustomFields ==
    {None} \cup
    {CustomField(n, v) :
        n \in {Absent, None, Str(<<"P", "r", "e", "c", "o", "n", "d", "i", "t", "i", "o", "n">>),
               Str(<<"x">>)},
        v \in {Absent, None, Padded}}
CustomFieldsOptions ==
    {Absent, None} \cup {List(xs) : xs \in SeqsUpTo(CustomFields, MaxItems)}

PreJiraOptions ==
    {Absent, None, PreJira(None, Text), PreJira(T1, Absent), PreJira(T1, Text)}
PreconditionSet ==
    {None} \cup
    {Precondition(j, d) :
        j \in PreJiraOptions,
        d \in {Absent, None, Str(<<Space, "d", Space, Tab, "e", Space>>)}}
PreconditionsOptions ==
    {Absent, None, Preconditions(Absent), Preconditions(None)} \cup
    {Preconditions(List(xs)) : xs \in SeqsUpTo(PreconditionSet, MaxItems)}

VariantTests ==
    {Test(j, s, Absent) : j \in JiraOptions, s \in {Absent}}
    \cup {Test(BaseJira(T1), s, Absent) : s \in StepsOptions}
    \cup {Test(BaseJira(T1), List(<<Step(Padded, Text, c)>>), Absent) : c \in CustomFieldsOptions}
    \cup {Test(BaseJira(T1), List(<<BaseStep>>), p) : p \in PreconditionsOptions}

\* the sequences of at most n tests of which at most one is a variant
TestSeqs(n) ==
    SeqsUpTo(BaseTests, n) \cup
    {[xs EXCEPT ![i] = v] : <<xs, i, v>> \in
        {<<ys, j, w>> \in (SeqsUpTo(BaseTests, n) \X (1..n) \X VariantTests) : j <= Len(ys)}}

FlattenArgs ==
    /\ flatIn \in TestSeqs(MaxTests)
    /\ flatOut = Pending

Flatten ==
    /\ flatOut = Pending
    /\ flatOut' = [done |-> TRUE, res |-> flatten_rows(flatIn)]
    /\ UNCHANGED flatIn

-----------------------------------------------------------------------------
(* The server behind gql(): it holds the records 1..srvN in order.  An      *)
(* answer to a page request at offset s is an exception or the getTests     *)
(* mapping.  The server reports srvLimit as "limit" and fills a page with   *)
(* the srvPage records from s on; it may also leave "total" out or answer   *)
(* with no records at all.  The honest answer reports the total srvN and    *)
(* the limit srvPage and holds the records at [s, s + srvPage).             *)

\* requests.HTTPError with status 401 / with another status, a transport
\* error (requests.ConnectionError, Timeout), RuntimeError (GraphQL "errors")
Errors == {"HTTP401", "HTTPOther", "Transport", "Runtime"}
HTTPErrors == {"HTTP401", "HTTPOther"}

Min(a, b) == IF a < b THEN a ELSE b

\* the records at [s, s + k) of the server's list
Slice(s, k) == [i \in 1..(Min(s + k, srvN) - Min(s, srvN)) |-> s + i]

Answer(tot, lim, results) == [fail |-> "no", total |-> tot, limit |-> lim, results |-> results]
Failure(e) == [fail |-> e]

Honest(s) == Answer(Num(srvN), Num(srvPage), List(Slice(s, srvPage)))

Answers(s) ==
    {Failure(e) : e \in Errors} \cup
    {Answer(tot, lim, res) :
        tot \in {Absent, Num(srvN)},
        lim \in {srvLimit},
        res \in {None, List(<<>>), List(Slice(s, srvPage))}}

\* the test behind record id
CatalogTest(id) ==
    Test(BaseJira(Str(<<"T">> \o IntStr(id))),
         List([i \in 1..(id % 3) |-> BaseStep]), Absent)

\* out and reqs are followed up to OutCap records and ReqCap requests, and cut
\* there.  A fetch whose every page moves start by at least 1 issues at most
\* MaxTotal requests of at most MaxLimit records each and never reaches them;
\* only a fetch that stalls on one offset does, and then start, total and batch,
\* which decide the loop, are still exact.
OutCap == MaxTotal * MaxLimit
ReqCap == MaxTotal + 1
Keep(xs, cap) == IF Len(xs) <= cap THEN xs ELSE SubSeq(xs, 1, cap)

-----------------------------------------------------------------------------
(* __main__: the exit status of a run that an exception ends *)

ExitStatus(e) == IF e \in HTTPErrors THEN 1 ELSE 2

NoCause == [kind |-> "none", at |-> "none"]

\* an exception e raised at `at` reaches the handler of __main__
Raise(e, at) ==
    /\ pc' = "exit"
    /\ exitCode' = ExitStatus(e)
    /\ cause' = [kind |-> e, at |-> at]

\* sys.exit(n) inside main: SystemExit is no Exception, the handler lets it pass
SysExit(n, why, at) ==
    /\ pc' = "exit"
    /\ exitCode' = n
    /\ cause' = [kind |-> why, at |-> at]

-----------------------------------------------------------------------------
(* main *)

RunInit ==
    /\ pc = "config"
    /\ limit \in 1..MaxLimit
    /\ srvN \in 0..MaxTotal
    /\ srvLimit \in {Absent} \cup {Num(l) : l \in 0..MaxLimit}
    /\ srvPage \in 1..MaxLimit
    /\ start = 0
    /\ total = 0
    /\ batch = <<>>
    /\ out = <<>>
    /\ reqs = <<>>
    /\ parity = 0
    /\ paused = FALSE
    /\ unpaced = FALSE
    /\ uniform = TRUE
    /\ stalled = FALSE
    /\ fetched = "no"
    /\ failed = "no"
    /\ rows = <<>>
    /\ flattened = FALSE
    /\ written = FALSE
    /\ exitCode = -1
    /\ cause = NoCause

fetchVars == <<start, total, batch, out, reqs, parity, paused, unpaced, uniform, stalled,
               fetched, failed>>
inputVars == <<limit, srvN, srvLimit, srvPage>>
otherVars == <<fmtIn, fmtOut, flatIn, flatOut>>

\* lines 251-260: cfgOk says that XRAY_CLIENT_ID, XRAY_CLIENT_SECRET and
\* JIRA_JQL are all set
CheckConfig ==
    /\ pc = "config"
    /\ \E cfgOk \in BOOLEAN :
        IF cfgOk
        THEN pc' = "auth" /\ UNCHANGED <<exitCode, cause>>
        ELSE SysExit(1, "config", "config")
    /\ UNCHANGED <<fetchVars, inputVars, rows, flattened, written, otherVars>>

\* lines 264-270: get_token, then the diagnostics path under --diagnose-fields
Authenticate ==
    /\ pc = "auth"
    /\ \E r \in Errors \cup {"ok"}, diagnose \in BOOLEAN :
        IF r = "ok"
        THEN /\ pc' = IF diagnose THEN "diag" ELSE "first"
             /\ UNCHANGED <<exitCode, cause>>
        ELSE Raise(r, "auth")
    /\ UNCHANGED <<fetchVars, inputVars, rows, flattened, written, otherVars>>

\* lines 193-240 and 270: run_field_diagnostics, then sys.exit(0)
Diagnose ==
    /\ pc = "diag"
    /\ \E a \in Answers(0) :
        IF a.fail # "no" THEN SysExit(1, a.fail, "diag") /\ UNCHANGED written
        ELSE IF OrElse(Get(a.results), List(<<>>)).v = <<>>
            THEN SysExit(1, "notests", "diag") /\ UNCHANGED written
        ELSE SysExit(0, "none", "none") /\ written' = TRUE
    /\ UNCHANGED <<fetchVars, inputVars, rows, flattened, otherVars>>

-----------------------------------------------------------------------------
(* fetch_all_tests *)

\* lines 99 and 107: start += data.get("limit", limit)
Increment(a) == GetDefault(a.limit, Num(limit)).v
NextStartRequested(a) == start + limit
NextStartStuck(a) == start
NextStart(a) == start + Increment(a)

\* lines 89-91: the first page request raised
FirstPageErrorRaises(e) ==
    /\ fetched' = "raised"
    /\ Raise(e, "page")
FirstPageError(e) ==
    /\ fetched' = "returned"
    /\ pc' = "flatten"
    /\ UNCHANGED <<exitCode, cause>>

\* line 103: a later page request raised; nothing in fetch_all_tests or main catches it
LoopPageErrorReturns(e) ==
    /\ fetched' = "returned"
    /\ pc' = "flatten"
    /\ UNCHANGED <<exitCode, cause>>
LoopPageError(e) ==
    /\ fetched' = "raised"
    /\ Raise(e, "page")

\* line 102: the loop condition
LoopConditionNoBatch == start < total
LoopCondition == start < total /\ batch # <<>>

\* lines 83-99
FirstPage ==
    /\ pc = "first"
    /\ reqs' = <<start>>
    /\ parity' = 1
    /\ paused' = FALSE
    /\ \E a \in Answers(start) :
        IF a.fail # "no"
        THEN /\ FirstPageError(a.fail)
             /\ failed' = "first"
             /\ UNCHANGED <<start, total, batch, out, uniform, stalled>>
        ELSE /\ uniform' = (a = Honest(start))
             /\ UNCHANGED <<failed, exitCode, cause>>
             /\ IF ~Truthy(GetDefault(a.total, Num(0)))
                THEN /\ fetched' = "returned"
                     /\ pc' = "flatten"
                     /\ UNCHANGED <<start, total, batch, out, stalled>>
                ELSE /\ total' = GetDefault(a.total, Num(0)).v
                     /\ batch' = OrElse(Get(a.results), List(<<>>)).v
                     /\ out' = Keep(out \o batch', OutCap)
                     /\ start' = NextStart(a)
                     /\ stalled' = (Increment(a) < 1)
                     /\ pc' = "loop"
                     /\ UNCHANGED fetched
    /\ UNCHANGED <<unpaced, inputVars, rows, flattened, written, otherVars>>

\* lines 102-108: one turn of the loop
LoopPage ==
    /\ pc = "loop"
    /\ LoopCondition
    /\ reqs' = Keep(Append(reqs, start), ReqCap)
    /\ parity' = 1 - parity
    /\ unpaced' = (unpaced \/ ~paused)
    /\ \E a \in Answers(start) :
        IF a.fail # "no"
        THEN /\ LoopPageError(a.fail)
             /\ failed' = "later"
             /\ UNCHANGED <<start, total, batch, out, uniform, stalled, paused>>
        ELSE /\ batch' = OrElse(Get(a.results), List(<<>>)).v
             /\ out' = Keep(out \o batch', OutCap)
             /\ start' = NextStart(a)
             /\ stalled' = (stalled \/ Increment(a) < 1)
             /\ uniform' = (uniform /\ a = Honest(start))
             /\ paused' = TRUE
             /\ UNCHANGED <<total, fetched, failed, pc, exitCode, cause>>
    /\ UNCHANGED <<inputVars, rows, flattened, written, otherVars>>

\* line 109
FetchReturn ==
    /\ pc = "loop"
    /\ ~LoopCondition
    /\ fetched' = "returned"
    /\ pc' = "flatten"
    /\ UNCHANGED <<start, total, batch, out, reqs, parity, paused, unpaced, uniform, stalled,
                   failed, exitCode, cause, inputVars, rows, flattened, written,
                   otherVars>>

\* lines 274-287: rows = flatten_rows(tests)
FlattenTests ==
    /\ pc = "flatten"
    /\ flattened' = TRUE
    /\ LET r == flatten_rows([i \in 1..Len(out) |-> CatalogTest(out[i])])
       IN  IF r.ok
           THEN rows' = r.rows /\ pc' = "write" /\ UNCHANGED <<exitCode, cause>>
           ELSE rows' = rows /\ Raise("AttributeError", "flatten")
    /\ UNCHANGED <<fetchVars, inputVars, written, otherVars>>

\* lines 289-302: the export file is written (or the writer raises OSError)
WriteExcel ==
    /\ pc = "write"
    /\ \E ok \in BOOLEAN :
        IF ok THEN written' = TRUE /\ SysExit(0, "none", "none")
        ELSE written' = FALSE /\ Raise("OSError", "write")
    /\ UNCHANGED <<fetchVars, inputVars, rows, flattened, otherVars>>

-----------------------------------------------------------------------------
(* The specifications *)

RunIdle ==
    /\ pc = "idle" /\ limit = 1 /\ srvN = 0 /\ srvLimit = Absent /\ srvPage = 1
    /\ start = 0 /\ total = 0 /\ batch = <<>> /\ out = <<>>
    /\ reqs = <<>> /\ parity = 0 /\ paused = FALSE /\ unpaced = FALSE /\ uniform = TRUE
    /\ stalled = FALSE /\ fetched = "no" /\ failed = "no" /\ rows = <<>>
    /\ flattened = FALSE /\ written = FALSE /\ exitCode = -1 /\ cause = NoCause
FormatIdle == fmtIn = None /\ fmtOut = Pending
FlattenIdle == flatIn = <<>> /\ flatOut = Pending

Init == RunInit /\ FormatIdle /\ FlattenIdle

Next ==
    \/ CheckConfig
    \/ Authenticate
    \/ Diagnose
    \/ FirstPage
    \/ LoopPage
    \/ FetchReturn
    \/ FlattenTests
    \/ WriteExcel

\* a run of main against a server that may answer anything
Spec == Init /\ [][Next]_vars

\* the same, with fetch_all_tests running on: a page request that can be issued
\* is issued, a return that is due happens (the code is sequential and gql
\* answers or raises within its timeout)
FairSpec ==
    Init /\ [][Next]_vars /\ WF_vars(FirstPage) /\ WF_vars(LoopPage) /\ WF_vars(FetchReturn)

FormatNext == Format /\ UNCHANGED <<runVars, flatIn, flatOut>>
\* _format_jira_field_value applied to one value
FormatInit == FormatArgs /\ RunIdle /\ FlattenIdle
FormatSpec == FormatInit /\ [][FormatNext]_vars

FlattenNext == Flatten /\ UNCHANGED <<runVars, fmtIn, fmtOut>>
\* flatten_rows applied to one sequence of tests
FlattenInit == FlattenArgs /\ RunIdle /\ FormatIdle
FlattenSpec == FlattenInit /\ [][FlattenNext]_vars

-----------------------------------------------------------------------------
(* The claims about fetch_all_tests and the run (Spec, FairSpec) *)

\* the offsets 0, L, 2L, ... below n (offset 0 is always requested)
Offsets(n, L) ==
    [i \in 1..(IF n = 0 THEN 1 ELSE (n + L - 1) \div L) |-> (i - 1) * L]

\* C1: against a server that holds srvN records, reports the same positive
\* limit L = srvPage on every page and returns the records at [start, start + L),
\* the offsets requested are exactly 0, L, 2L, ... and the list returned is the
\* whole list of the server, in its order, nothing dropped, doubled or moved.
C1_PagedFetchComplete ==
    (fetched = "returned" /\ uniform /\ failed = "no")
        => /\ reqs = Offsets(srvN, srvPage)
           /\ out = [i \in 1..srvN |-> i]

\* 5 records, L = 2, requested limit 1: three pages, at 0, 2 and 4
C1_Witness ==
    /\ fetched = "returned" /\ uniform /\ failed = "no"
    /\ srvN = 5 /\ srvPage = 2 /\ limit = 1
    /\ reqs = <<0, 2, 4>>
    /\ Len(out) = 5

\* C2: when the first page request raises, fetch_all_tests returns the empty
\* list and does not raise, and offset 0 is the only request ever issued.
C2_FirstPageFailureEmpty ==
    failed = "first"
        => /\ fetched = "returned"
           /\ out = <<>>
           /\ reqs = <<0>>
           /\ cause.at # "page"

\* the run went on after the failed first page and wrote an (empty) export
C2_Witness ==
    failed = "first" /\ pc = "exit" /\ written /\ exitCode = 0 /\ rows = <<>>

\* C3: when a page request after the first raises, fetch_all_tests raises too
\* (the records gathered so far are not returned) and the run ends with a
\* non-zero status, flatten_rows not called and no export file written.
C3_LaterFailurePropagates ==
    failed = "later"
        => /\ fetched = "raised"
           /\ pc = "exit"
           /\ exitCode > 0
           /\ cause.at = "page"
           /\ ~flattened
           /\ ~written
           /\ rows = <<>>

\* the third request failed with two pages of records in hand
C3_Witness ==
    failed = "later" /\ Len(reqs) = 3 /\ Len(out) = 4 /\ pc = "exit"

\* C4: once a page of zero records has arrived, no step issues a page request
\* or adds a record: the only step left returns what was gathered before it,
\* also when start is still below total.
C4_EmptyPageStops ==
    [][(pc = "loop" /\ batch = <<>>)
        => (reqs' = reqs /\ out' = out /\ fetched' = "returned")]_vars

\* total 5, the second page empty: the first page's records, no third request
C4_Witness ==
    /\ fetched = "returned" /\ failed = "no"
    /\ total = 5 /\ batch = <<>> /\ start < total
    /\ Len(reqs) = 2
    /\ out = <<1, 2>>

\* the run ended through an exception or a sys.exit with a failure status
RunFailed == pc = "exit" /\ cause # NoCause

\* C7: a run that the rejection of the credential (HTTP 401) ends exits with
\* a non-zero status, and no run that another failure ends exits with that
\* same status.
C7_AuthStatusDistinct ==
    RunFailed
        => /\ exitCode # 0
           /\ (cause.kind # "HTTP401" => exitCode # ExitStatus("HTTP401"))

\* C9: no page request is issued directly after the previous one: time.sleep
\* runs between every two successive page requests, the first two included.
C9_PauseBetweenRequests == ~unpaced

Fetching == pc \in {"first", "loop"}

\* C10 as stated: whatever the server answers, fetch_all_tests comes to an end.
C10_FetchTerminates == Fetching ~> ~Fetching

\* C10 as amended: fetch_all_tests comes to an end unless some page moved the
\* offset by a limit of less than 1.
C10_FetchTerminatesUnlessStalled == Fetching ~> (~Fetching \/ stalled)

\* a server that caps the page at 1 where 2 were requested: five requests
C10_Witness ==
    /\ fetched = "returned" /\ ~stalled /\ failed = "no"
    /\ limit = 2 /\ srvLimit = Num(1)
    /\ srvN = 5
    /\ Len(reqs) = 5

-----------------------------------------------------------------------------
(* The claim about _format_jira_field_value (FormatSpec) *)

\* a mapping with a string under 'value'
IsChoice(x) == IsDict(x) /\ x.value # Absent /\ IsStr(x.value)

\* C6: the result is, for a single choice, its value; for a list of choices,
\* their non-empty values joined with ", "; for a plain scalar (a string, a
\* number), its string form; for None and for the empty list, "".
C6_FormatByShape ==
    fmtOut.done
        => /\ IsChoice(fmtIn) => fmtOut.s = fmtIn.value.v
           /\ (IsList(fmtIn) /\ \A i \in 1..Len(fmtIn.v) : IsChoice(fmtIn.v[i]))
                => fmtOut.s = Join(CommaSpace,
                                   FilterNonEmpty([i \in 1..Len(fmtIn.v) |-> fmtIn.v[i].value.v]))
           /\ fmtIn.t = "str" => fmtOut.s = fmtIn.v
           /\ fmtIn.t = "int" => fmtOut.s = IntStr(fmtIn.v)
           /\ fmtIn \in {None, List(<<>>)} => fmtOut.s = <<>>

-----------------------------------------------------------------------------
(* The claims about flatten_rows (FlattenSpec) *)

\* the number of steps of a test: 0 when "steps" is missing or null
NSteps(test) == IF test.steps \in {Absent, None} THEN 0 ELSE Len(test.steps.v)

\* the number of rows a test is to yield
NRows(test) == IF NSteps(test) = 0 THEN 1 ELSE NSteps(test)

\* the number of rows the first k tests are to yield
RECURSIVE RowsBefore(_, _)
RowsBefore(tests, k) == IF k = 0 THEN 0 ELSE RowsBefore(tests, k - 1) + NRows(tests[k])

\* A Record of the data model, any optional part of it missing or null: what
\* is present has its type (a label is a string, a step is a mapping, a step
\* custom field that is there has a string for a name).
WellTyped(test) ==
    /\ (test.jira \notin {Absent, None} /\ test.jira.labels \notin {Absent, None})
        => \A i \in 1..Len(test.jira.labels.v) : IsStr(test.jira.labels.v[i])
    /\ test.steps \notin {Absent, None}
        => \A i \in 1..Len(test.steps.v) :
            LET step == test.steps.v[i]
            IN  /\ step # None
                /\ step.customFields \notin {Absent, None}
                    => \A j \in 1..Len(step.customFields.v) :
                        LET cf == step.customFields.v[j]
                        IN  cf # None => cf.name # None

AllWellTyped(tests) == \A k \in 1..Len(tests) : WellTyped(tests[k])

\* the key of a test when it has one
HasKey(test) == test.jira \notin {Absent, None} /\ IsStr(test.jira.key)

\* C5: a Record without steps yields one row with an empty Step #, a Record
\* with N steps yields N rows with Step # 1..N in step order, the rows of the
\* Records follow each other in the order of the Records, and so the number
\* of rows is the sum over the Records of max(1, number of steps).
C5_RowsPerRecord ==
    (flatOut.done /\ AllWellTyped(flatIn))
        => /\ flatOut.res.ok
           /\ Len(flatOut.res.rows) = RowsBefore(flatIn, Len(flatIn))
           /\ \A k \in 1..Len(flatIn) :
                LET first == RowsBefore(flatIn, k - 1)
                    rs == flatOut.res.rows
                IN  /\ NSteps(flatIn[k]) = 0 => rs[first + 1].StepNo = Str(<<>>)
                    /\ \A i \in 1..NSteps(flatIn[k]) : rs[first + i].StepNo = Num(i)
                    /\ HasKey(flatIn[k])
                        => \A i \in 1..NRows(flatIn[k]) :
                            rs[first + i].TestKey = flatIn[k].jira.key

\* a test with two steps, then one with none: rows 1, 2 and an empty Step #
C5_Witness ==
    /\ flatOut.done /\ AllWellTyped(flatIn) /\ flatOut.res.ok
    /\ Len(flatIn) = 2
    /\ NSteps(flatIn[1]) = 2 /\ NSteps(flatIn[2]) = 0
    /\ Len(flatOut.res.rows) = 3
    /\ flatOut.res.rows[2].StepNo = Num(2)
    /\ flatOut.res.rows[3].StepNo = Str(<<>>)
    /\ flatOut.res.rows[3].TestKey # flatOut.res.rows[2].TestKey

Columns ==
    {"TestKey", "Summary", "Labels", "Components", "CustomField2", "IssuePreconditions",
     "IssuePreconditionsDefinition", "StepNo", "StepPrecondition", "Action",
     "ExpectedResult"}

\* C8: on Records whose optional parts are missing or null flatten_rows does
\* not raise, and every column of every row holds a string or an integer.
C8_NoNullColumn ==
    (flatOut.done /\ AllWellTyped(flatIn))
        => /\ flatOut.res.ok
           /\ \A i \in 1..Len(flatOut.res.rows) :
                \A c \in Columns : flatOut.res.rows[i][c].t \in {"str", "int"}

=============================================================================
